---- MODULE Spec2Model ----
(***************************************************************************)
(* A model of ocl's Context (src/src/context.rs) and of the example        *)
(* program examples/basics.rs.                                             *)
(*                                                                         *)
(* Rust values are written as follows:                                     *)
(*   Option<T>        None is << >>, Some(x) is <<x>>                      *)
(*   Vec<T>           a sequence; Rust index k is TLA+ index k + 1         *)
(*   Result<Context>  <<"Ok", context>> or <<"Err", message>>              *)
(*   a panic          <<"Panic">>                                          *)
(* Every call into the native library is appended to the log `calls`       *)
(* together with what the library returned.                                *)
(***************************************************************************)
EXTENDS Integers, Sequences, FiniteSets, TLC

\* ------------------------------------------------------------------ bounds

MaxPlatforms == 2
MaxDevices == 2
MaxHandles == 2
MaxIdx == 3
MaxReleases == 2
DataSetSize == 2
MaxVal == 2

\* ----------------------------------------------------------------- helpers

None == << >>
Some(x) == <<x>>

Range(s) == {s[k] : k \in 1..Len(s)}

\* The sequences without repetition over S, of length 0..n.
DistinctSeqs(S, n) ==
    UNION {{s \in [1..k -> S] : \A a, b \in 1..k : a # b => s[a] # s[b]} : k \in 0..n}

PlatformPool == 1..MaxPlatforms
DevicePool == 11..(10 + MaxDevices)
Handles == 101..(100 + MaxHandles)
DeviceTypes == {"CL_DEVICE_TYPE_GPU", "CL_DEVICE_TYPE_ALL"}

PlatformLists == DistinctSeqs(PlatformPool, MaxPlatforms)
DeviceLists == DistinctSeqs(DevicePool, MaxDevices)

\* What one run of Context::new asks of its callers and of the native library.
PlatformIdxOpts == {None} \cup {Some(i) : i \in 0..MaxIdx}
DeviceTypeOpts == {None} \cup {Some(t) : t \in DeviceTypes}
\* get_device_ids either returns a list or panics (context.rs, "# Panics").
GetDeviceIdsAnswers == {<<"Ok", d>> : d \in DeviceLists} \cup {<<"Panic">>}

\* ------------------------------------------------------------------- state

VARIABLES
    platforms,   \* what get_platform_ids() returns
    pc,          \* "start", "ready", "failed", "panicked", "crashed"
    ctx,         \* the Context: None, or Some([platform_opt, device_ids, obj])
    newArgs,     \* the arguments Context::new was called with
    ret,         \* the last operation and what it returned
    calls,       \* the native calls made so far, in order, with their returns
    live,        \* whether the native context object still exists
    \* examples/basics.rs
    mpc,            \* where main is
    coeff,          \* the scalar argument (0 until main sets it)
    source_envoy,   \* [vec: the host array, buf: the device buffer]
    result_envoy,   \* [vec: the host array, buf: the device buffer]
    queue,          \* the command queue: the commands not yet completed
    items_done      \* the work items the running kernel has executed

ctxVars == <<platforms, pc, ctx, newArgs, ret, calls, live>>
basicsVars == <<mpc, coeff, source_envoy, result_envoy, queue, items_done>>
vars == <<ctxVars, basicsVars>>

\* ------------------------------------------------------- program constants

DEFAULT_PLATFORM == 0
DEFAULT_DEVICE == 0

ErrNoPlatforms == "\nNo OpenCL platforms found!\n"
ErrInvalidPlatform == "Invalid OpenCL platform index specified. Use 'get_platform_ids()' for a list."
ErrNoDevices == "\nNo OpenCL devices found!\n"

\* ------------------------------------------------------------ Context::new

\* Vec::get: Some(&v[i]) when i is in range, None otherwise.
VecGet(v, i) == IF i < Len(v) THEN Some(v[i + 1]) ELSE None

\* SelectPlatform with an out-of-range index wrapped instead of rejected.
SelectPlatform_Wrap(pfs, platform_idx_opt) ==
    IF platform_idx_opt # None
    THEN Some(pfs[(platform_idx_opt[1] % Len(pfs)) + 1])
    ELSE Some(pfs[DEFAULT_PLATFORM + 1])

\* SelectPlatform whose None arm takes the last platform instead of the first.
SelectPlatform_LastDefault(pfs, platform_idx_opt) ==
    IF platform_idx_opt # None
    THEN VecGet(pfs, platform_idx_opt[1])
    ELSE Some(pfs[Len(pfs)])

\* The match on platform_idx_opt: Some(platform), or None for the early return.
SelectPlatform(pfs, platform_idx_opt) ==
    IF platform_idx_opt # None
    THEN VecGet(pfs, platform_idx_opt[1])
    ELSE Some(pfs[DEFAULT_PLATFORM + 1])

GetDeviceIdsCall(platform, device_types_opt, answer) ==
    [fn |-> "get_device_ids", args |-> <<platform, device_types_opt>>, ret |-> answer]

CreateContextCall(device_ids, h) ==
    [fn |-> "create_context", args |-> <<device_ids>>, ret |-> <<"Ok", h>>]

ReleaseCall(obj) ==
    [fn |-> "clReleaseContext", args |-> <<obj>>, ret |-> <<"Ok">>]

\* The tail of Context::new once a platform is selected; check_devices says
\* whether the empty device list is rejected, and stored is the list kept.
NewOnPlatform(platform, device_types_opt, gdi, h, check_devices, stored) ==
    LET c1 == GetDeviceIdsCall(platform, device_types_opt, gdi) IN
    IF gdi[1] = "Panic"
    THEN [val |-> <<"Panic">>, calls |-> <<c1>>]
    ELSE IF check_devices /\ Len(gdi[2]) = 0
         THEN [val |-> <<"Err", ErrNoDevices>>, calls |-> <<c1>>]
         ELSE [val |-> <<"Ok", [platform_opt |-> Some(platform),
                                device_ids |-> stored,
                                obj |-> h]>>,
               calls |-> <<c1, CreateContextCall(gdi[2], h)>>]

Reverse(s) == [k \in 1..Len(s) |-> s[Len(s) + 1 - k]]

\* Context::new with the platform index checked before the empty platform list.
ContextNew_IndexFirst(pfs, platform_idx_opt, device_types_opt, gdi, h) ==
    IF platform_idx_opt # None /\ VecGet(pfs, platform_idx_opt[1]) = None
    THEN [val |-> <<"Err", ErrInvalidPlatform>>, calls |-> << >>]
    ELSE IF Len(pfs) = 0
         THEN [val |-> <<"Err", ErrNoPlatforms>>, calls |-> << >>]
         ELSE NewOnPlatform(SelectPlatform(pfs, platform_idx_opt)[1],
                            device_types_opt, gdi, h, TRUE,
                            IF gdi[1] = "Ok" THEN gdi[2] ELSE << >>)

\* Context::new keeping the device list in another order than it passed on.
ContextNew_ReversedDevices(pfs, platform_idx_opt, device_types_opt, gdi, h) ==
    IF Len(pfs) = 0
    THEN [val |-> <<"Err", ErrNoPlatforms>>, calls |-> << >>]
    ELSE IF SelectPlatform(pfs, platform_idx_opt) = None
         THEN [val |-> <<"Err", ErrInvalidPlatform>>, calls |-> << >>]
         ELSE NewOnPlatform(SelectPlatform(pfs, platform_idx_opt)[1],
                            device_types_opt, gdi, h, TRUE,
                            IF gdi[1] = "Ok" THEN Reverse(gdi[2]) ELSE << >>)

\* Context::new without the check for an empty device list.
ContextNew_NoDeviceCheck(pfs, platform_idx_opt, device_types_opt, gdi, h) ==
    IF Len(pfs) = 0
    THEN [val |-> <<"Err", ErrNoPlatforms>>, calls |-> << >>]
    ELSE IF SelectPlatform(pfs, platform_idx_opt) = None
         THEN [val |-> <<"Err", ErrInvalidPlatform>>, calls |-> << >>]
         ELSE NewOnPlatform(SelectPlatform(pfs, platform_idx_opt)[1],
                            device_types_opt, gdi, h, FALSE,
                            IF gdi[1] = "Ok" THEN gdi[2] ELSE << >>)

\* Context::new on the platform list pfs, where gdi is what get_device_ids
\* answers and h is the handle create_context returns, if they are called.
\* The outcome: the value returned (or the panic) and the native calls made.
ContextNew(pfs, platform_idx_opt, device_types_opt, gdi, h) ==
    IF Len(pfs) = 0
    THEN [val |-> <<"Err", ErrNoPlatforms>>, calls |-> << >>]
    ELSE LET sel == SelectPlatform(pfs, platform_idx_opt) IN
         IF sel = None
         THEN [val |-> <<"Err", ErrInvalidPlatform>>, calls |-> << >>]
         ELSE LET platform == sel[1]
                  c1 == GetDeviceIdsCall(platform, device_types_opt, gdi)
              IN
              IF gdi[1] = "Panic"
              THEN [val |-> <<"Panic">>, calls |-> <<c1>>]
              ELSE LET device_ids == gdi[2] IN
                   IF Len(device_ids) = 0
                   THEN [val |-> <<"Err", ErrNoDevices>>, calls |-> <<c1>>]
                   ELSE [val |-> <<"Ok", [platform_opt |-> Some(platform),
                                          device_ids |-> device_ids,
                                          obj |-> h]>>,
                         calls |-> <<c1, CreateContextCall(device_ids, h)>>]

\* ------------------------------------------------------------- the methods

obj(self) == self.obj

device_ids(self) == self.device_ids

platform(self) == self.platform_opt

\* valid_device clamping the index to the last device instead of wrapping it.
valid_device_Clamp(self, selected_idx) ==
    IF Len(self.device_ids) = 0
    THEN <<"Panic">>
    ELSE LET valid_idx == IF selected_idx < Len(self.device_ids)
                          THEN selected_idx
                          ELSE Len(self.device_ids) - 1
         IN <<"Ok", self.device_ids[valid_idx + 1]>>

\* selected_idx % len panics when len is 0; the index is then in range.
valid_device(self, selected_idx) ==
    IF Len(self.device_ids) = 0
    THEN <<"Panic">>
    ELSE LET valid_idx == selected_idx % Len(self.device_ids)
         IN <<"Ok", self.device_ids[valid_idx + 1]>>

\* resolve_device_id whose Some arm is off by one.
resolve_device_id_OffByOne(self, device_idx) ==
    IF device_idx # None
    THEN valid_device(self, device_idx[1] + 1)
    ELSE IF DEFAULT_DEVICE < Len(device_ids(self))
         THEN <<"Ok", device_ids(self)[DEFAULT_DEVICE + 1]>>
         ELSE <<"Panic">>

\* The None arm indexes device_ids()[DEFAULT_DEVICE], which panics out of range.
resolve_device_id(self, device_idx) ==
    IF device_idx # None
    THEN valid_device(self, device_idx[1])
    ELSE IF DEFAULT_DEVICE < Len(device_ids(self))
         THEN <<"Ok", device_ids(self)[DEFAULT_DEVICE + 1]>>
         ELSE <<"Panic">>

\* release() handing the handle to clReleaseContext twice.
release_Twice(self) == <<ReleaseCall(self.obj), ReleaseCall(self.obj)>>

\* release(): the one native call it makes.
release(self) == <<ReleaseCall(self.obj)>>

\* ------------------------------------------------------ examples/basics.rs

\* The values main sets "to arbitrary values".
Coeffs == {2, 3}
Values == 0..MaxVal
WorkItems == 0..(DataSetSize - 1)

NoEnvoy == [vec |-> << >>, buf |-> << >>]
Filled(v) == [k \in 1..DataSetSize |-> v]

\* The kernel multiply_by_scalar run by work item idx: res[idx] = src[idx] * coeff.
multiply_by_scalar(src, c, res, idx) ==
    [res EXCEPT ![idx + 1] = src[idx + 1] * c]

KernelCmd == [cmd |-> "multiply_by_scalar"]
ReadCmd == [cmd |-> "read"]

\* ------------------------------------------------------------------ system

NumReleases(log) == Cardinality({k \in 1..Len(log) : log[k].fn = "clReleaseContext"})

Init ==
    /\ platforms \in PlatformLists
    /\ pc = "start"
    /\ ctx = None
    /\ newArgs = None
    /\ ret = [op |-> "none", arg |-> << >>, val |-> << >>]
    /\ calls = << >>
    /\ live = FALSE
    /\ mpc = "start"
    /\ coeff = 0
    /\ source_envoy = NoEnvoy
    /\ result_envoy = NoEnvoy
    /\ queue = << >>
    /\ items_done = {}

\* A call of Context::new and what it leaves behind.
DoNew(platform_idx_opt, device_types_opt, gdi, h) ==
    /\ pc = "start"
    /\ LET out == ContextNew(platforms, platform_idx_opt, device_types_opt, gdi, h) IN
       /\ newArgs' = Some(<<platform_idx_opt, device_types_opt>>)
       /\ ret' = [op |-> "new", arg |-> <<platform_idx_opt, device_types_opt>>,
                  val |-> IF out.val[1] = "Ok" THEN <<"Ok">> ELSE out.val]
       /\ calls' = calls \o out.calls
       /\ ctx' = IF out.val[1] = "Ok" THEN Some(out.val[2]) ELSE None
       /\ pc' = CASE out.val[1] = "Ok" -> "ready"
                  [] out.val[1] = "Err" -> "failed"
                  [] OTHER -> "panicked"
       /\ live' = (out.val[1] = "Ok")
    /\ UNCHANGED platforms

New(platform_idx_opt, device_types_opt, gdi, h) ==
    /\ DoNew(platform_idx_opt, device_types_opt, gdi, h)
    /\ UNCHANGED basicsVars

Obj ==
    /\ pc = "ready"
    /\ ret' = [op |-> "obj", arg |-> << >>, val |-> <<obj(ctx[1])>>]
    /\ UNCHANGED <<platforms, pc, ctx, newArgs, calls, live, basicsVars>>

DeviceIds ==
    /\ pc = "ready"
    /\ ret' = [op |-> "device_ids", arg |-> << >>, val |-> <<device_ids(ctx[1])>>]
    /\ UNCHANGED <<platforms, pc, ctx, newArgs, calls, live, basicsVars>>

Platform ==
    /\ pc = "ready"
    /\ ret' = [op |-> "platform", arg |-> << >>, val |-> <<platform(ctx[1])>>]
    /\ UNCHANGED <<platforms, pc, ctx, newArgs, calls, live, basicsVars>>

ValidDevice(selected_idx) ==
    /\ pc = "ready"
    /\ LET r == valid_device(ctx[1], selected_idx) IN
       /\ ret' = [op |-> "valid_device", arg |-> <<selected_idx>>, val |-> r]
       /\ pc' = IF r[1] = "Panic" THEN "panicked" ELSE pc
    /\ UNCHANGED <<platforms, ctx, newArgs, calls, live, basicsVars>>

ResolveDeviceId(device_idx) ==
    /\ pc = "ready"
    /\ LET r == resolve_device_id(ctx[1], device_idx) IN
       /\ ret' = [op |-> "resolve_device_id", arg |-> <<device_idx>>, val |-> r]
       /\ pc' = IF r[1] = "Panic" THEN "panicked" ELSE pc
    /\ UNCHANGED <<platforms, ctx, newArgs, calls, live, basicsVars>>

\* clReleaseContext drops the native object's only reference.  Releasing a
\* handle whose object is gone is undefined in the native library: the call
\* may return an error the wrapper ignores, or bring the process down.
Release ==
    /\ pc = "ready"
    /\ NumReleases(calls) < MaxReleases
    /\ ret' = [op |-> "release", arg |-> << >>, val |-> << >>]
    /\ calls' = calls \o release(ctx[1])
    /\ live' = FALSE
    /\ pc' \in (IF live THEN {"ready"} ELSE {"ready", "crashed"})
    /\ UNCHANGED <<platforms, ctx, newArgs, basicsVars>>

Next ==
    \/ \E p \in PlatformIdxOpts, t \in DeviceTypeOpts,
          g \in GetDeviceIdsAnswers, h \in Handles : New(p, t, g, h)
    \/ Obj
    \/ DeviceIds
    \/ Platform
    \/ \E i \in 0..MaxIdx : ValidDevice(i)
    \/ \E d \in {None} \cup {Some(i) : i \in 0..MaxIdx} : ResolveDeviceId(d)
    \/ Release

Spec == Init /\ [][Next]_vars

\* ------------------------------------------------- examples/basics.rs: main

\* let coeff = ..: main sets the coefficient to an arbitrary value.
MainSetup ==
    /\ mpc = "start"
    /\ coeff' \in Coeffs
    /\ mpc' = "new"
    /\ UNCHANGED <<ctxVars, source_envoy, result_envoy, queue, items_done>>

\* Context::new(None, None).unwrap(): an Err is a panic of main.
MainNewContext ==
    /\ mpc = "new"
    /\ \E g \in GetDeviceIdsAnswers, h \in Handles : DoNew(None, None, g, h)
    /\ mpc' = IF pc' = "ready" THEN "proque" ELSE "panicked"
    /\ UNCHANGED <<coeff, source_envoy, result_envoy, queue, items_done>>

\* ProQue::new(&ocl_cxt, None): a program and a command queue, still empty.
MainProQue ==
    /\ mpc = "proque"
    /\ mpc' = "build"
    /\ UNCHANGED <<ctxVars, coeff, source_envoy, result_envoy, queue, items_done>>

\* ocl_pq.build(build_config).expect(..): a failed build is a panic of main.
MainBuild ==
    /\ mpc = "build"
    /\ mpc' \in {"source_envoy", "panicked"}
    /\ UNCHANGED <<ctxVars, coeff, source_envoy, result_envoy, queue, items_done>>

\* Envoy::scrambled: a host array of arbitrary values and its device buffer.
MainSourceEnvoy ==
    /\ mpc = "source_envoy"
    /\ \E v \in [1..DataSetSize -> Values] : source_envoy' = [vec |-> v, buf |-> v]
    /\ mpc' = "result_envoy"
    /\ UNCHANGED <<ctxVars, coeff, result_envoy, queue, items_done>>

\* Envoy::new(&dims, 0.0f32, ..): a zeroed host array and its device buffer.
MainResultEnvoy ==
    /\ mpc = "result_envoy"
    /\ result_envoy' = [vec |-> Filled(0), buf |-> Filled(0)]
    /\ mpc' = "create_kernel"
    /\ UNCHANGED <<ctxVars, coeff, source_envoy, queue, items_done>>

\* create_kernel(..).arg_env(&source_envoy).arg_scl(coeff).arg_env(&mut
\* result_envoy): the kernel's arguments are the two envoys' buffers and coeff.
MainCreateKernel ==
    /\ mpc = "create_kernel"
    /\ mpc' = "enqueue"
    /\ UNCHANGED <<ctxVars, coeff, source_envoy, result_envoy, queue, items_done>>

\* kernel.enqueue(None, None): the kernel is queued, waiting for no event,
\* and main goes on.
MainEnqueue ==
    /\ mpc = "enqueue"
    /\ queue' = Append(queue, KernelCmd)
    /\ mpc' = "read_wait"
    /\ UNCHANGED <<ctxVars, coeff, source_envoy, result_envoy, items_done>>

\* A read that does not block: main goes on to the check at once.
MainRead_NoWait ==
    /\ mpc = "read_wait"
    /\ queue' = Append(queue, ReadCmd)
    /\ mpc' = "check"
    /\ UNCHANGED <<ctxVars, coeff, source_envoy, result_envoy, items_done>>

\* result_envoy.read_wait(): a blocking read is queued and main waits for it.
MainReadWait ==
    /\ mpc = "read_wait"
    /\ queue' = Append(queue, ReadCmd)
    /\ mpc' = "reading"
    /\ UNCHANGED <<ctxVars, coeff, source_envoy, result_envoy, items_done>>

\* The loop of assert_eq!(result_envoy[idx], source_envoy[idx] * coeff).
MainCheck ==
    /\ mpc = "check"
    /\ mpc' = IF \A idx \in WorkItems :
                    result_envoy.vec[idx + 1] = source_envoy.vec[idx + 1] * coeff
              THEN "done"
              ELSE "assert_failed"
    /\ UNCHANGED <<ctxVars, coeff, source_envoy, result_envoy, queue, items_done>>

\* ----------------------------------------- the device: an in-order queue

\* One work item of the kernel at the head of the queue runs.
DeviceWorkItem(idx) ==
    /\ queue # << >>
    /\ Head(queue) = KernelCmd
    /\ idx \notin items_done
    /\ result_envoy' = [result_envoy EXCEPT
           !.buf = multiply_by_scalar(source_envoy.buf, coeff, result_envoy.buf, idx)]
    /\ items_done' = items_done \cup {idx}
    /\ UNCHANGED <<ctxVars, mpc, coeff, source_envoy, queue>>

\* The kernel completes when every work item has run.
DeviceKernelDone ==
    /\ queue # << >>
    /\ Head(queue) = KernelCmd
    /\ items_done = WorkItems
    /\ queue' = Tail(queue)
    /\ items_done' = {}
    /\ UNCHANGED <<ctxVars, mpc, coeff, source_envoy, result_envoy>>

\* The read at the head of the queue copies the buffer to the host array and
\* completes; a main blocked on it goes on.
DeviceRead ==
    /\ queue # << >>
    /\ Head(queue) = ReadCmd
    /\ result_envoy' = [result_envoy EXCEPT !.vec = result_envoy.buf]
    /\ queue' = Tail(queue)
    /\ mpc' = IF mpc = "reading" THEN "check" ELSE mpc
    /\ UNCHANGED <<ctxVars, coeff, source_envoy, items_done>>

NextBasics ==
    \/ MainSetup
    \/ MainNewContext
    \/ MainProQue
    \/ MainBuild
    \/ MainSourceEnvoy
    \/ MainResultEnvoy
    \/ MainCreateKernel
    \/ MainEnqueue
    \/ MainReadWait
    \/ MainCheck
    \/ \E idx \in WorkItems : DeviceWorkItem(idx)
    \/ DeviceKernelDone
    \/ DeviceRead

SpecBasics == Init /\ [][NextBasics]_vars

\* ------------------------------------------------------------------ claims

\* What Context::new was called with, once it has been called.
NewCalled == pc # "start"
NewPlatformIdx == newArgs[1][1]
NewDeviceTypes == newArgs[1][2]

\* The native calls Context::new made: every call but the releases.
IsNewCall(c) == c.fn # "clReleaseContext"
NewCalls == SelectSeq(calls, IsNewCall)
CallsOf(f) == {k \in 1..Len(calls) : calls[k].fn = f}

\* C1: with an empty platform list Context::new returns the "No OpenCL
\* platforms found!" error whatever platform index and device types it was
\* given, and calls neither get_device_ids nor create_context.
C1_NoPlatforms ==
    (NewCalled /\ Len(platforms) = 0) =>
        /\ pc = "failed"
        /\ ret = [op |-> "new", arg |-> newArgs[1], val |-> <<"Err", ErrNoPlatforms>>]
        /\ ctx = None
        /\ calls = << >>

\* C1's case: new was called with an index (out of range too) on no platforms.
C1_Witness ==
    /\ NewCalled
    /\ Len(platforms) = 0
    /\ NewPlatformIdx = Some(1)
    /\ NewDeviceTypes # None

\* C2: on n > 0 platforms, Context::new(Some(i), _) returns the "Invalid OpenCL
\* platform index" error exactly when i >= n, then without any native call;
\* when i < n it asks get_device_ids about platforms[i], and the Context it
\* returns has platform() = Some(platforms[i]).
C2_PlatformIndex ==
    (NewCalled /\ Len(platforms) > 0 /\ NewPlatformIdx # None) =>
        LET i == NewPlatformIdx[1]
            n == Len(platforms)
        IN
        /\ (i >= n) <=> (pc = "failed" /\ ret.val = <<"Err", ErrInvalidPlatform>>)
        /\ (i >= n) => (calls = << >> /\ ctx = None)
        /\ (i < n) => /\ Len(calls) >= 1
                      /\ calls[1].fn = "get_device_ids"
                      /\ calls[1].args[1] = platforms[i + 1]
        /\ (ctx # None) => platform(ctx[1]) = Some(platforms[i + 1])
        /\ (ret.op = "platform") => ret.val = <<Some(platforms[i + 1])>>

\* C2's case: the first index past the end of a two-platform list.
C2_Witness ==
    /\ pc = "failed"
    /\ Len(platforms) = 2
    /\ NewPlatformIdx = Some(2)

\* The answers the native library gave Context::new, read back from the log
\* (a call that was not made gets an arbitrary answer).
LoggedDevices == IF Len(NewCalls) >= 1 THEN NewCalls[1].ret ELSE <<"Ok", << >>>>
LoggedHandle == IF Len(NewCalls) >= 2 THEN NewCalls[2].ret[2] ELSE 101

\* C3: on a non-empty platform list, Context::new(None, t) makes the native
\* calls and returns the result that Context::new(Some(0), t) does when the
\* native library answers alike, and on success platform() is
\* Some(platforms[0]).
C3_NoneIsFirstPlatform ==
    (NewCalled /\ Len(platforms) > 0 /\ NewPlatformIdx = None) =>
        LET o == ContextNew(platforms, Some(0), NewDeviceTypes, LoggedDevices, LoggedHandle) IN
        /\ NewCalls = o.calls
        /\ (o.val[1] = "Ok") <=> (ctx # None)
        /\ (ctx # None) => (ctx = Some(o.val[2]) /\ platform(ctx[1]) = Some(platforms[1]))
        /\ (ctx = None) => ret.val = o.val
        /\ (ret.op = "platform") => ret.val = <<Some(platforms[1])>>

\* C3's case: new(None, _) succeeded on two platforms and platform() was called.
C3_Witness ==
    /\ NewCalled
    /\ NewPlatformIdx = None
    /\ Len(platforms) = 2
    /\ ret.op = "platform"

\* C4: when get_device_ids answers the empty list, Context::new returns the
\* "No OpenCL devices found!" error and never calls create_context; when it
\* answers a non-empty list, create_context is called once with that list,
\* device_ids() is that list in that order and obj() is the handle
\* create_context returned.
C4_Devices ==
    (NewCalled /\ Len(NewCalls) >= 1 /\ NewCalls[1].ret[1] = "Ok") =>
        LET d == NewCalls[1].ret[2] IN
        IF Len(d) = 0
        THEN /\ pc = "failed"
             /\ ret.val = <<"Err", ErrNoDevices>>
             /\ ctx = None
             /\ CallsOf("create_context") = {}
        ELSE /\ CallsOf("create_context") = {2}
             /\ calls[2].args = <<d>>
             /\ ctx # None
             /\ device_ids(ctx[1]) = d
             /\ obj(ctx[1]) = calls[2].ret[2]
             /\ (ret.op = "device_ids") => ret.val = <<d>>
             /\ (ret.op = "obj") => ret.val = <<calls[2].ret[2]>>

\* C4's case: get_device_ids answered two devices, not in ascending order, and
\* device_ids() was called on the Context.
C4_Witness ==
    /\ NewCalled
    /\ Len(NewCalls) = 2
    /\ NewCalls[1].ret = <<"Ok", <<12, 11>>>>
    /\ ret.op = "device_ids"

\* C5: valid_device(selected_idx) returns device_ids[selected_idx mod
\* device_ids.len()], an element of device_ids(), for every selected_idx,
\* in range or not.
C5_ValidDevice ==
    (ret.op = "valid_device") =>
        LET d == device_ids(ctx[1])
            i == ret.arg[1]
        IN
        /\ Len(d) > 0
        /\ ret.val = <<"Ok", d[(i % Len(d)) + 1]>>
        /\ ret.val[2] \in Range(d)

\* C5's case: an index past the end of a two-device list, not a multiple of it.
C5_Witness ==
    /\ ret.op = "valid_device"
    /\ Len(device_ids(ctx[1])) = 2
    /\ ret.arg[1] = 3

\* C6: once release() has been called, no later obj() hands out the released
\* handle and no later release() passes it to clReleaseContext again.
C6_NoUseAfterRelease ==
    /\ NumReleases(calls) <= 1
    /\ ~(NumReleases(calls) >= 1 /\ ret.op = "obj" /\ ret.val = <<obj(ctx[1])>>)

\* C7: in main, result_envoy.read_wait() returns only after the kernel queued
\* before it has completed: when main checks, every idx in 0..data_set_size
\* has result_envoy[idx] = source_envoy[idx] * coeff, and no assert fails.
C7_ReadAfterKernel ==
    /\ (mpc \in {"check", "done"}) =>
          /\ queue = << >>
          /\ \A idx \in WorkItems :
                result_envoy.vec[idx + 1] = source_envoy.vec[idx + 1] * coeff
    /\ mpc # "assert_failed"

\* C7's case: main is through the check, on source values that are not zero.
C7_Witness ==
    /\ mpc = "done"
    /\ \A idx \in WorkItems : source_envoy.vec[idx + 1] # 0
    /\ source_envoy.vec[1] # source_envoy.vec[2]

\* C8: a Context returned by Context::new has a non-empty device list and a
\* platform of the enumerated list, whatever methods are called on it
\* afterwards; so valid_device and resolve_device_id never panic.
C8_ContextInvariant ==
    (ctx # None) =>
        /\ Len(device_ids(ctx[1])) > 0
        /\ platform(ctx[1]) # None
        /\ platform(ctx[1])[1] \in Range(platforms)
        /\ DEFAULT_DEVICE < Len(device_ids(ctx[1]))
        /\ pc # "panicked"
        /\ (ret.op \in {"valid_device", "resolve_device_id"}) => ret.val[1] = "Ok"

\* C8's case: resolve_device_id(None) called on a Context after a release().
C8_Witness ==
    /\ ctx # None
    /\ NumReleases(calls) >= 1
    /\ ret.op = "resolve_device_id"
    /\ ret.arg = <<None>>

\* C9: resolve_device_id(Some(i)) returns what valid_device(i) returns, the
\* device at i modulo the device count; resolve_device_id(None) returns the
\* first device; either way an element of device_ids().
C9_ResolveDeviceId ==
    (ret.op = "resolve_device_id") =>
        LET d == device_ids(ctx[1])
            a == ret.arg[1]
        IN
        /\ Len(d) > 0
        /\ (a # None) => /\ ret.val = valid_device(ctx[1], a[1])
                         /\ ret.val = <<"Ok", d[(a[1] % Len(d)) + 1]>>
        /\ (a = None) => ret.val = <<"Ok", d[1]>>
        /\ ret.val[2] \in Range(d)

\* C9's case: resolve_device_id(Some(3)) on a two-device list.
C9_Witness ==
    /\ ret.op = "resolve_device_id"
    /\ ret.arg = <<Some(3)>>
    /\ Len(device_ids(ctx[1])) = 2

\* C10: a release() step appends exactly one clReleaseContext call, on the
\* stored handle, and leaves the Context's fields alone; every other method
\* step changes neither the Context nor the log of native calls; so the
\* number of native releases changes only in a release() step.
C10_Frame ==
    [][/\ (pc = "ready" /\ ret'.op = "release") =>
             /\ calls' = Append(calls, ReleaseCall(obj(ctx[1])))
             /\ ctx' = ctx
       /\ (pc = "ready" /\ ret'.op # "release") =>
             /\ calls' = calls
             /\ ctx' = ctx
             /\ live' = live
       /\ (NumReleases(calls') # NumReleases(calls)) => ret'.op = "release"]_vars

\* C10's case: release() has been called once on a Context.
C10_Witness ==
    /\ ctx # None
    /\ ret.op = "release"
    /\ NumReleases(calls) = 1
    /\ calls[Len(calls)] = ReleaseCall(obj(ctx[1]))

====
